---- MODULE Spec2Model ----
(***************************************************************************)
(* Model of server.js: the /search ranking pipeline (relevance filter,     *)
(* tag extraction, scoring, deduplication, widening fallback) and the      *)
(* /refine summarisation route with its local fallback.                    *)
(*                                                                         *)
(* Strings are modelled as sequences of tokens (words, url segments), the  *)
(* empty string as <<>>.  toLowerCase maps every token to its lower-case   *)
(* form, "a b" string concatenation is sequence concatenation and          *)
(* String.includes / an unanchored regex test is contiguous containment.   *)
(***************************************************************************)
EXTENDS Integers, Sequences, FiniteSets, TLC

VARIABLES
    googleKeys,   \* searchGoogleCSE's locals apiKey and cx are both set
    geminiKey,    \* the /refine handler's local apiKey is set
    route,        \* which handler the request in progress runs
    pc,           \* the handler's position (which await it is suspended on)
    googleCalls,  \* calls of searchGoogleCSE made by the request
    ddgCalls,     \* calls of searchDuckDuckGo made by the request
    geminiCalls,  \* outbound fetches to the summarisation endpoint
    primary,      \* how the call of searchGoogleCSE ended
    secondary,    \* how the call of searchDuckDuckGo ended
    raw,          \* the handler's local `raw`
    reqBody,      \* req.body of the /refine request
    gemini,       \* how the summarisation fetch ended
    status,       \* HTTP status of the response sent (0: none yet)
    resBody,      \* JSON body of the response sent
    dIn,          \* dedupe study: the input sequence
    dOut,         \* dedupe study: dedupe(dIn)
    dOut2,        \* dedupe study: dedupe(dedupe(dIn))
    dpc           \* dedupe study: how many times dedupe was applied

vars ==
    << googleKeys, geminiKey, route, pc, googleCalls, ddgCalls, geminiCalls,
       primary, secondary, raw, reqBody, gemini, status, resBody,
       dIn, dOut, dOut2, dpc >>

serverVars ==
    << googleKeys, geminiKey, route, pc, googleCalls, ddgCalls, geminiCalls,
       primary, secondary, raw, reqBody, gemini, status, resBody >>

dedupeVars ==
    << dIn, dOut, dOut2, dpc >>

----------------------------------------------------------------------------
(* Bounds of the model *)

\* longest raw result list drawn from the full item universe
MaxRaw ==
    3

\* longest raw result list of numbered (pairwise distinct) hits
MaxLong ==
    13

\* longest input sequence of the dedupe study
MaxDedupe ==
    3

\* longest results list posted to /refine
MaxRefine ==
    2

----------------------------------------------------------------------------
(* Strings *)

\* String.prototype.toLowerCase on one token
ToLowerTok(w) ==
    CASE w = "Estágio"  -> "estágio"
      [] w = "Backend"  -> "backend"
      [] w = "Java"     -> "java"
      [] w = "Noticias" -> "noticias"
      [] w = "Curitiba" -> "curitiba"
      [] w = "A"        -> "a"
      [] w = "X"        -> "x"
      [] OTHER          -> w

toLowerCase(s) ==
    [i \in 1..Len(s) |-> ToLowerTok(s[i])]

\* a token that holds keyword k inside a longer word
SubTok(k, w) ==
    \/ k = w
    \/ k = "java" /\ w = "javascript"
    \/ k = "sql"  /\ w \in {"mysql", "sqlite"}
    \/ k = ".net" /\ w = "asp.net"
    \/ k = "go"   /\ w \in {"django", "mongodb"}

\* t.includes(x): x occurs in t
includes(t, x) ==
    IF Len(x) = 1
    THEN \E i \in 1..Len(t) : SubTok(x[1], t[i])
    ELSE \E i \in 0..(Len(t) - Len(x)) : SubSeq(t, i + 1, i + Len(x)) = x

\* the truthiness of a string
Truthy(s) ==
    s # <<>>

\* `${a} ${b}`
Join(a, b) ==
    a \o b

\* it.f || "" for a field that may be missing
FieldOrEmpty(it, f) ==
    IF f \in DOMAIN it THEN it[f] ELSE <<>>

----------------------------------------------------------------------------
(* isRelevant *)

InternPatterns ==
    { <<"estágio">>, <<"estagio">>, <<"internship">> }

DevPatterns ==
    { <<"desenvolvedor">>, <<"desenvolvimento">>, <<"developer">>,
      <<"programador">>, <<"software">>, <<"backend">>,
      <<"front", "end">>, <<"frontend">>, <<"full", "stack">>, <<"fullstack">>,
      <<"qa">>, <<"mobile">> }

isRelevant(item) ==
    LET t == toLowerCase(Join(item.title, item.description))
        hasIntern == \E p \in InternPatterns : includes(t, p)
        hasDev == \E p \in DevPatterns : includes(t, p)
    IN  hasIntern \/ hasDev

----------------------------------------------------------------------------
(* domainScore *)

boosts ==
    << <<"linkedin.com", "jobs">>, <<"indeed.com">>, <<"indeed.com.br">>,
       <<"gupy.io">>, <<"vagas.com.br">>, <<"trampos.co">>, <<"greenhouse.io">>,
       <<"lever.co">>, <<"workable.com">>, <<"jobvite.com">>,
       <<"empregos.com.br">> >>

domainScore(url) ==
    LET u == toLowerCase(url)
    IN  IF \E i \in 1..Len(boosts) : includes(u, boosts[i]) THEN 3
        ELSE IF includes(u, <<"duckduckgo.com">>) THEN 0
        ELSE 1

----------------------------------------------------------------------------
(* extractTags *)

techs ==
    << <<"java">>, <<"javascript">>, <<"typescript">>, <<"node">>, <<"react">>,
       <<"next.js">>, <<"vue">>, <<"angular">>, <<"svelte">>,
       <<"python">>, <<"django">>, <<"flask">>, <<"fastapi">>,
       <<"c#">>, <<".net">>, <<"asp.net">>, <<"entity", "framework">>,
       <<"ruby">>, <<"rails">>, <<"php">>, <<"laravel">>, <<"symfony">>,
       <<"go">>, <<"kotlin">>, <<"swift">>,
       <<"sql">>, <<"postgres">>, <<"mysql">>, <<"sqlite">>, <<"mongodb">>,
       <<"git">>, <<"docker">>, <<"kubernetes">>, <<"ci/cd">>,
       <<"aws">>, <<"azure">>, <<"gcp">> >>

cities ==
    << <<"porto", "alegre">>, <<"caxias", "do", "sul">>, <<"são", "leopoldo">>,
       <<"novo", "hamburgo">>, <<"pelotas">>, <<"santa", "maria">>,
       <<"florianópolis">>, <<"joinville">>, <<"blumenau">>, <<"chapecó">>,
       <<"itajai">>,
       <<"curitiba">>, <<"londrina">>, <<"maringá">>, <<"ponta", "grossa">> >>

\* [...new Set(s)]: the first occurrence of every element, in order
RECURSIVE Uniq(_)
Uniq(s) ==
    IF s = <<>> THEN <<>>
    ELSE LET r == Uniq(SubSeq(s, 1, Len(s) - 1))
             x == s[Len(s)]
         IN  IF \E i \in 1..Len(r) : r[i] = x THEN r ELSE Append(r, x)

extractTags(text) ==
    LET t == toLowerCase(text)
        foundTechs == SelectSeq(techs, LAMBDA x : includes(t, x))
        foundCities == SelectSeq(cities, LAMBDA x : includes(t, x))
    IN  [techs |-> Uniq(foundTechs), cities |-> Uniq(foundCities)]

----------------------------------------------------------------------------
(* dedupe *)

\* the loop body with out.unshift(it) in place of out.push(it)
DedupeStepUnshift(st, it) ==
    LET u == toLowerCase(FieldOrEmpty(it, "url"))
        tt == toLowerCase(FieldOrEmpty(it, "title"))
        byUrl == Truthy(u) /\ u \notin st.seenUrl
        byTitle == Truthy(tt) /\ tt \notin st.seenTitle
    IN  IF byUrl \/ byTitle
        THEN [seenUrl |-> IF Truthy(u) THEN st.seenUrl \cup {u} ELSE st.seenUrl,
              seenTitle |-> IF Truthy(tt) THEN st.seenTitle \cup {tt}
                            ELSE st.seenTitle,
              out |-> <<it>> \o st.out]
        ELSE st

\* the loop body with `byUrl && byTitle` in place of `byUrl || byTitle`
DedupeStepAnd(st, it) ==
    LET u == toLowerCase(FieldOrEmpty(it, "url"))
        tt == toLowerCase(FieldOrEmpty(it, "title"))
        byUrl == Truthy(u) /\ u \notin st.seenUrl
        byTitle == Truthy(tt) /\ tt \notin st.seenTitle
    IN  IF byUrl /\ byTitle
        THEN [seenUrl |-> IF Truthy(u) THEN st.seenUrl \cup {u} ELSE st.seenUrl,
              seenTitle |-> IF Truthy(tt) THEN st.seenTitle \cup {tt}
                            ELSE st.seenTitle,
              out |-> Append(st.out, it)]
        ELSE st

\* one iteration of the for loop over the state (seenUrl, seenTitle, out)
DedupeStep(st, it) ==
    LET u == toLowerCase(FieldOrEmpty(it, "url"))
        tt == toLowerCase(FieldOrEmpty(it, "title"))
        byUrl == Truthy(u) /\ u \notin st.seenUrl
        byTitle == Truthy(tt) /\ tt \notin st.seenTitle
    IN  IF byUrl \/ byTitle
        THEN [seenUrl |-> IF Truthy(u) THEN st.seenUrl \cup {u} ELSE st.seenUrl,
              seenTitle |-> IF Truthy(tt) THEN st.seenTitle \cup {tt}
                            ELSE st.seenTitle,
              out |-> Append(st.out, it)]
        ELSE st

RECURSIVE DedupeLoop(_, _)
DedupeLoop(st, items) ==
    IF items = <<>> THEN st
    ELSE DedupeLoop(DedupeStep(st, Head(items)), Tail(items))

dedupe(items) ==
    DedupeLoop([seenUrl |-> {}, seenTitle |-> {}, out |-> <<>>], items).out

----------------------------------------------------------------------------
(* Array.prototype.sort with a comparator (b, a) => key(b) - key(a): stable *)

\* the insertion of an unstable sort: x overtakes the items it ties with
RECURSIVE InsertDescUnstable(_, _, _)
InsertDescUnstable(sorted, x, key) ==
    IF sorted = <<>> THEN <<x>>
    ELSE LET l == sorted[Len(sorted)]
         IN  IF l[key] > x[key] THEN Append(sorted, x)
             ELSE Append(InsertDescUnstable(SubSeq(sorted, 1, Len(sorted) - 1),
                                            x, key), l)

\* key names the numeric field the comparator reads
RECURSIVE InsertDesc(_, _, _)
InsertDesc(sorted, x, key) ==
    IF sorted = <<>> THEN <<x>>
    ELSE LET l == sorted[Len(sorted)]
         IN  IF l[key] >= x[key] THEN Append(sorted, x)
             ELSE Append(InsertDesc(SubSeq(sorted, 1, Len(sorted) - 1), x, key), l)

RECURSIVE SortDescBy(_, _)
SortDescBy(s, key) ==
    IF s = <<>> THEN <<>>
    ELSE InsertDesc(SortDescBy(SubSeq(s, 1, Len(s) - 1), key), s[Len(s)], key)

\* .sort((a,b)=>b.score - a.score)
sortByScore(s) ==
    SortDescBy(s, "score")

\* s.slice(0, n)
slice(s, n) ==
    SubSeq(s, 1, IF Len(s) < n THEN Len(s) ELSE n)

----------------------------------------------------------------------------
(* The ranking pipeline of the /search handler *)

\* below this many strong items the handler widens
WeakLimit ==
    5

\* the cap of the result list
ResultCap ==
    12

\* .filter(it => it.url && it.title)
hasUrlAndTitle(rawList) ==
    SelectSeq(rawList, LAMBDA it : Truthy(it.url) /\ Truthy(it.title))

\* the .map callback of the filtered items without the city bonus
filteredItemNoCityBonus(it) ==
    LET tags == extractTags(Join(it.title, it.description))
        score == domainScore(it.url) + (IF Len(tags.techs) # 0 THEN 1 ELSE 0)
    IN  [title |-> it.title, description |-> it.description, url |-> it.url,
         tags |-> tags, score |-> score]

\* the .map callback of the filtered items
filteredItem(it) ==
    LET tags == extractTags(Join(it.title, it.description))
        score == domainScore(it.url)
                 + (IF Len(tags.techs) # 0 THEN 1 ELSE 0)
                 + (IF Len(tags.cities) # 0 THEN 1 ELSE 0)
    IN  [title |-> it.title, description |-> it.description, url |-> it.url,
         tags |-> tags, score |-> score]

\* the .map callback of the informative items
informativeItem(it) ==
    [title |-> it.title, description |-> it.description, url |-> it.url,
     tags |-> extractTags(Join(it.title, it.description)),
     score |-> domainScore(it.url)]

\* dedupe(items): the relevant hits, tagged and scored, in input order
strongItems(rawList) ==
    LET relevant == SelectSeq(hasUrlAndTitle(rawList), isRelevant)
    IN  dedupe([i \in 1..Len(relevant) |-> filteredItem(relevant[i])])

\* items after `items = dedupe(items).sort(...)`
narrowItems(rawList) ==
    sortByScore(strongItems(rawList))

\* const informative = raw.filter(...).map(...)
informative(rawList) ==
    LET valid == hasUrlAndTitle(rawList)
    IN  [i \in 1..Len(valid) |-> informativeItem(valid[i])]

\* the merge in the other order: dedupe([...informative, ...items])
mergedItemsInformativeFirst(items, rawList) ==
    dedupe(informative(rawList) \o items)

\* the list that the fallback sorts: dedupe([...items, ...informative])
mergedItems(items, rawList) ==
    dedupe(items \o informative(rawList))

\* the body of the if (items.length < 5) block
widen(items, rawList) ==
    slice(sortByScore(mergedItems(items, rawList)), ResultCap)

\* the list sent as `results`
rank(rawList) ==
    LET items == narrowItems(rawList)
    IN  slice(IF Len(items) < WeakLimit THEN widen(items, rawList) ELSE items,
              ResultCap)

----------------------------------------------------------------------------
(* localSummary.  A text is a sequence of lines, a line a sequence of tokens *)

\* s.replace(/\b\w/g, c => c.toUpperCase()) on one token; \w is ASCII only,
\* so a letter that follows an accented one starts a new word
CapTok(w) ==
    CASE w = "porto"         -> "Porto"
      [] w = "alegre"        -> "Alegre"
      [] w = "caxias"        -> "Caxias"
      [] w = "do"            -> "Do"
      [] w = "sul"           -> "Sul"
      [] w = "são"           -> "SãO"
      [] w = "leopoldo"      -> "Leopoldo"
      [] w = "novo"          -> "Novo"
      [] w = "hamburgo"      -> "Hamburgo"
      [] w = "pelotas"       -> "Pelotas"
      [] w = "santa"         -> "Santa"
      [] w = "maria"         -> "Maria"
      [] w = "florianópolis" -> "FlorianóPolis"
      [] w = "joinville"     -> "Joinville"
      [] w = "blumenau"      -> "Blumenau"
      [] w = "chapecó"       -> "Chapecó"
      [] w = "itajai"        -> "Itajai"
      [] w = "curitiba"      -> "Curitiba"
      [] w = "londrina"      -> "Londrina"
      [] w = "maringá"       -> "Maringá"
      [] w = "ponta"         -> "Ponta"
      [] w = "grossa"        -> "Grossa"
      [] OTHER               -> w

capitalize(s) ==
    [i \in 1..Len(s) |-> CapTok(s[i])]

\* r.tags?.techs || [] and r.tags?.cities || []
TagsOrEmpty(r, f) ==
    IF "tags" \in DOMAIN r THEN r.tags[f] ELSE <<>>

\* count[k] = (count[k] || 0) + 1 on an object that keeps insertion order
Tally(count, k) ==
    IF \E i \in 1..Len(count) : count[i].k = k
    THEN [i \in 1..Len(count) |->
             IF count[i].k = k THEN [k |-> k, v |-> count[i].v + 1] ELSE count[i]]
    ELSE Append(count, [k |-> k, v |-> 1])

RECURSIVE TallyAll(_, _)
TallyAll(count, ks) ==
    IF ks = <<>> THEN count ELSE TallyAll(Tally(count, Head(ks)), Tail(ks))

\* the two nested for loops, for the tag list f
RECURSIVE CountTags(_, _, _)
CountTags(count, results, f) ==
    IF results = <<>> THEN count
    ELSE CountTags(TallyAll(count, TagsOrEmpty(Head(results), f)),
                   Tail(results), f)

\* lines.join of a list of entries with ", "
RECURSIVE JoinComma(_)
JoinComma(parts) ==
    IF parts = <<>> THEN <<>>
    ELSE IF Len(parts) = 1 THEN parts[1]
    ELSE parts[1] \o <<",">> \o JoinComma(Tail(parts))

localSummary(results) ==
    LET techCount == CountTags(<<>>, results, "techs")
        cityCount == CountTags(<<>>, results, "cities")
        best == slice(results, 5)
        techTop == slice(SortDescBy(techCount, "v"), 6)
        cityTop == slice(SortDescBy(cityCount, "v"), 5)
        topTech == [i \in 1..Len(techTop) |->
                       techTop[i].k \o <<"(", ToString(techTop[i].v), ")">>]
        topCity == [i \in 1..Len(cityTop) |->
                       capitalize(cityTop[i].k)
                       \o <<"(", ToString(cityTop[i].v), ")">>]
        techLine == IF Len(topTech) # 0
                    THEN <<"Tecnologias mais citadas:">> \o JoinComma(topTech)
                         \o <<".">>
                    ELSE <<"Tecnologias mais citadas: não identificadas.">>
        cityLine == IF Len(topCity) # 0
                    THEN <<"Cidades em destaque:">> \o JoinComma(topCity) \o <<".">>
                    ELSE <<"Cidades em destaque: não identificadas.">>
        bestLines == [i \in 1..Len(best) |->
                         <<ToString(i), ".">> \o FieldOrEmpty(best[i], "title")
                         \o <<"--">> \o FieldOrEmpty(best[i], "url")]
    \* the two closing lines are fixed text, kept here by their first words
    IN  <<techLine, cityLine, <<"Top 5 oportunidades:">>>> \o bestLines
        \o << <<"Requisitos comuns de estágio">>, <<"Dicas">> >>

----------------------------------------------------------------------------
(* Inputs *)

SeqsUpTo(S, n) ==
    UNION { [1..k -> S] : k \in 0..n }

TEstagioJava ==
    <<"Estágio", "Backend", "Java">>

TEstagio ==
    <<"Estágio">>

TNoticias ==
    <<"Noticias", "Curitiba">>

DVaga ==
    <<"vaga", "para", "estágio", "em", "desenvolvimento", "java", ",", "spring">>

UGupy ==
    <<"https:", "gupy.io", "jobs", "123">>

UBlog ==
    <<"https:", "blog.example", "post">>

UDdg ==
    <<"https:", "duckduckgo.com", "c", "Java">>

\* hits the collaborators' .map callbacks can produce (three strings, any of
\* them possibly empty): postings that share urls and titles, a news page, a
\* hit without url, a hit without title and a search-engine page
RawItems ==
    { [title |-> TEstagio, description |-> <<>>, url |-> UBlog],
      [title |-> TEstagioJava, description |-> <<>>, url |-> UBlog],
      [title |-> TEstagio, description |-> <<>>, url |-> UGupy],
      [title |-> TEstagioJava, description |-> DVaga, url |-> UGupy],
      [title |-> TNoticias, description |-> DVaga, url |-> UGupy],
      [title |-> TNoticias, description |-> <<>>, url |-> UBlog],
      [title |-> TNoticias, description |-> <<>>, url |-> UDdg],
      [title |-> TEstagio, description |-> DVaga, url |-> <<>>],
      [title |-> <<>>, description |-> DVaga, url |-> UGupy] }

\* hit number i of a long result page: a job posting or a news page
LongHit(i, kind) ==
    IF kind = "job"
    THEN [title |-> <<"Estágio", "Java", ToString(i)>>, description |-> <<>>,
          url |-> <<"https:", "gupy.io", "jobs", ToString(i)>>]
    ELSE [title |-> <<"Noticias", ToString(i)>>, description |-> <<>>,
          url |-> <<"https:", "blog.example", ToString(i)>>]

\* pages of n distinct hits of which the last k are job postings
LongLists ==
    { [i \in 1..n[1] |-> LongHit(i, IF i > n[1] - n[2] THEN "job" ELSE "news")]
      : n \in { m \in ((MaxRaw + 1)..MaxLong) \X (0..MaxLong) : m[2] <= m[1] } }

RawLists ==
    SeqsUpTo(RawItems, MaxRaw) \cup LongLists

\* what a posted results list can hold: ranked items, or bare hits without tags
RefineItems ==
    { filteredItem([title |-> TEstagioJava, description |-> DVaga, url |-> UGupy]),
      informativeItem([title |-> TNoticias, description |-> <<>>, url |-> UBlog]),
      [title |-> TEstagio, description |-> <<>>, url |-> UBlog] }

\* JSON values that req.body.results can be
Undefined ==
    [type |-> "undefined"]

JsArray(items) ==
    [type |-> "array", items |-> items]

ResultsValues ==
    { [type |-> "string"], [type |-> "object"] }
    \cup { JsArray(l) : l \in SeqsUpTo(RefineItems, MaxRefine) }

\* req.body: {} or {results: ...}
RefineBodies ==
    { <<>> } \cup { [results |-> v] : v \in ResultsValues }

\* the text the summarisation service generates
GeminiText ==
    << <<"Resumo", "gerado">> >>

\* bodies the summarisation endpoint answers with
GeminiData ==
    LET Answer(parts) == [candidates |-> << [content |-> [parts |-> parts]] >>]
    IN  { [error |-> "INVALID_ARGUMENT"],
          [candidates |-> <<>>],
          [candidates |-> << [finishReason |-> "SAFETY"] >>],
          Answer(<<>>),
          Answer(<< [text |-> <<>>] >>),
          Answer(<< [text |-> GeminiText] >>) }

\* data?.candidates?.[0]?.content?.parts?.[0]?.text, undefined read as ""
geminiOutput(data) ==
    IF /\ "candidates" \in DOMAIN data
       /\ Len(data.candidates) >= 1
       /\ "content" \in DOMAIN data.candidates[1]
       /\ Len(data.candidates[1].content.parts) >= 1
    THEN data.candidates[1].content.parts[1].text
    ELSE <<>>

\* const { results } = req.body
bodyResults(body) ==
    IF "results" \in DOMAIN body THEN body.results ELSE Undefined

\* Array.isArray(results)
isArray(v) ==
    v.type = "array"

\* !Array.isArray(results) || results.length === 0
noResults(v) ==
    IF isArray(v) THEN Len(v.items) = 0 ELSE TRUE

----------------------------------------------------------------------------
(* The server: one request at a time, each run to its response *)

Init ==
    /\ googleKeys = FALSE
    /\ geminiKey = FALSE
    /\ route = "none"
    /\ pc = "idle"
    /\ googleCalls = 0
    /\ ddgCalls = 0
    /\ geminiCalls = 0
    /\ primary = "none"
    /\ secondary = "none"
    /\ raw = <<>>
    /\ reqBody = <<>>
    /\ gemini = "none"
    /\ status = 0
    /\ resBody = <<>>
    /\ dIn = <<>>
    /\ dOut = <<>>
    /\ dOut2 = <<>>
    /\ dpc = "off"

\* res.json({ results: items.slice(0, 12) }) after the ranking of rawList
SendResults(rawList) ==
    /\ raw' = rawList
    /\ status' = 200
    /\ resBody' = [results |-> rank(rawList)]
    /\ pc' = "done"

\* GET /search arrives; the handler runs into searchGoogleCSE, which reads its
\* keys from process.env (keys), up to the handler's first await
SearchRequest(keys) ==
    /\ pc = "idle"
    /\ googleKeys' = keys
    /\ geminiKey' = FALSE
    /\ route' = "search"
    /\ pc' = "awaitGoogle"
    /\ googleCalls' = 1
    /\ ddgCalls' = 0
    /\ geminiCalls' = 0
    /\ primary' = "pending"
    /\ secondary' = "none"
    /\ raw' = <<>>
    /\ status' = 0
    /\ resBody' = <<>>
    /\ gemini' = "none"
    /\ reqBody' = <<>>
    /\ UNCHANGED dedupeVars

\* searchGoogleCSE returns null (no keys) or throws (fetch or json fails), or
\* returns an empty list: the handler goes on to `await searchDuckDuckGo(q)`
GoogleFails ==
    /\ pc = "awaitGoogle"
    /\ \E how \in {"null", "threw", "empty"} :
          /\ how = "null" <=> ~googleKeys
          /\ primary' = how
    /\ secondary' = "pending"
    /\ raw' = <<>>
    /\ ddgCalls' = ddgCalls + 1
    /\ pc' = "awaitDDG"
    /\ UNCHANGED << googleKeys, geminiKey, route, googleCalls, geminiCalls,
                    reqBody, gemini, status, resBody >>
    /\ UNCHANGED dedupeVars

\* searchGoogleCSE returns a non-empty list: the handler ranks and responds
GoogleReturns ==
    /\ pc = "awaitGoogle"
    /\ googleKeys
    /\ \E list \in RawLists :
          /\ list # <<>>
          /\ SendResults(list)
    /\ primary' = "list"
    /\ UNCHANGED << googleKeys, geminiKey, route, googleCalls, ddgCalls,
                    geminiCalls, secondary, reqBody, gemini >>
    /\ UNCHANGED dedupeVars

\* searchDuckDuckGo throws and the handler calls it again
DDGThrowsRetry ==
    /\ pc = "awaitDDG"
    /\ ddgCalls' = ddgCalls + 1
    /\ UNCHANGED << googleKeys, geminiKey, route, pc, googleCalls, geminiCalls,
                    primary, secondary, raw, reqBody, gemini, status, resBody >>
    /\ UNCHANGED dedupeVars

\* searchDuckDuckGo throws: the outer catch answers 500
DDGThrows ==
    /\ pc = "awaitDDG"
    /\ secondary' = "threw"
    /\ status' = 500
    /\ resBody' = [erro |-> "Falha ao buscar vagas"]
    /\ pc' = "done"
    /\ UNCHANGED << googleKeys, geminiKey, route, googleCalls, ddgCalls,
                    geminiCalls, primary, raw, reqBody, gemini >>
    /\ UNCHANGED dedupeVars

\* searchDuckDuckGo returns a list: the handler ranks and responds
DDGReturns ==
    /\ pc = "awaitDDG"
    /\ \E list \in RawLists : SendResults(list)
    /\ secondary' = "list"
    /\ UNCHANGED << googleKeys, geminiKey, route, googleCalls, ddgCalls,
                    geminiCalls, primary, reqBody, gemini >>
    /\ UNCHANGED dedupeVars

\* the handler of POST /refine up to its first return or await; apiKey is what
\* it reads from process.env
RefineStart(body, apiKey) ==
    /\ pc = "idle"
    /\ googleKeys' = FALSE
    /\ geminiKey' = apiKey
    /\ route' = "refine"
    /\ reqBody' = body
    /\ googleCalls' = 0
    /\ ddgCalls' = 0
    /\ primary' = "none"
    /\ secondary' = "none"
    /\ raw' = <<>>
    /\ gemini' = "none"
    /\ UNCHANGED dedupeVars

\* if (!Array.isArray(results) || results.length === 0) return 400
RefineNoResults(body, apiKey) ==
    /\ RefineStart(body, apiKey)
    /\ noResults(bodyResults(body))
    /\ geminiCalls' = 0
    /\ status' = 400
    /\ resBody' = [erro |-> "Sem resultados para refinar"]
    /\ pc' = "done"

\* the handler without the apiKey check: it fetches with an undefined key
RefineNoKeyFetches(body, apiKey) ==
    /\ RefineStart(body, apiKey)
    /\ ~noResults(bodyResults(body))
    /\ ~apiKey
    /\ geminiCalls' = 1
    /\ status' = 0
    /\ resBody' = <<>>
    /\ pc' = "awaitGemini"

\* if (!apiKey) return 400
RefineNoKey(body, apiKey) ==
    /\ RefineStart(body, apiKey)
    /\ ~noResults(bodyResults(body))
    /\ ~apiKey
    /\ geminiCalls' = 0
    /\ status' = 400
    /\ resBody' = [erro |-> "Gemini API Key não configurada"]
    /\ pc' = "done"

\* the handler reaches `await fetch(endpoint)`
RefineCallsGemini(body, apiKey) ==
    /\ RefineStart(body, apiKey)
    /\ ~noResults(bodyResults(body))
    /\ apiKey
    /\ geminiCalls' = 1
    /\ status' = 0
    /\ resBody' = <<>>
    /\ pc' = "awaitGemini"

\* a catch that reports the failure instead of summarising locally
GeminiThrowsReports ==
    /\ pc = "awaitGemini"
    /\ gemini' = "threw"
    /\ status' = 500
    /\ resBody' = [erro |-> "Falha ao refinar"]
    /\ pc' = "done"
    /\ UNCHANGED << googleKeys, geminiKey, route, googleCalls, ddgCalls,
                    geminiCalls, primary, secondary, raw, reqBody >>
    /\ UNCHANGED dedupeVars

\* fetch or response.json() rejects: the catch answers with the local summary
GeminiThrows ==
    /\ pc = "awaitGemini"
    /\ gemini' = "threw"
    /\ status' = 200
    /\ resBody' = [resumo |-> localSummary(bodyResults(reqBody).items)]
    /\ pc' = "done"
    /\ UNCHANGED << googleKeys, geminiKey, route, googleCalls, ddgCalls,
                    geminiCalls, primary, secondary, raw, reqBody >>
    /\ UNCHANGED dedupeVars

\* the response parses: res.json({ resumo: output || localSummary(results) })
GeminiResponds ==
    /\ pc = "awaitGemini"
    /\ \E data \in GeminiData :
          LET output == geminiOutput(data)
          IN  /\ gemini' = IF Truthy(output) THEN "text" ELSE "notext"
              /\ resBody' = [resumo |-> IF Truthy(output) THEN output
                                        ELSE localSummary(bodyResults(reqBody).items)]
    /\ status' = 200
    /\ pc' = "done"
    /\ UNCHANGED << googleKeys, geminiKey, route, googleCalls, ddgCalls,
                    geminiCalls, primary, secondary, raw, reqBody >>
    /\ UNCHANGED dedupeVars

\* the response is out: the handler has returned and its locals are gone
RequestEnds ==
    /\ pc = "done"
    /\ googleKeys' = FALSE
    /\ geminiKey' = FALSE
    /\ route' = "none"
    /\ pc' = "idle"
    /\ googleCalls' = 0
    /\ ddgCalls' = 0
    /\ geminiCalls' = 0
    /\ primary' = "none"
    /\ secondary' = "none"
    /\ raw' = <<>>
    /\ reqBody' = <<>>
    /\ gemini' = "none"
    /\ status' = 0
    /\ resBody' = <<>>
    /\ UNCHANGED dedupeVars

Next ==
    \/ \E keys \in BOOLEAN : SearchRequest(keys)
    \/ GoogleFails
    \/ GoogleReturns
    \/ DDGThrows
    \/ DDGReturns
    \/ \E body \in RefineBodies, apiKey \in BOOLEAN : RefineNoResults(body, apiKey)
    \/ \E body \in RefineBodies, apiKey \in BOOLEAN : RefineNoKey(body, apiKey)
    \/ \E body \in RefineBodies, apiKey \in BOOLEAN : RefineCallsGemini(body, apiKey)
    \/ GeminiThrows
    \/ GeminiResponds
    \/ RequestEnds

Spec ==
    Init /\ [][Next]_vars

----------------------------------------------------------------------------
(* The dedupe study: dedupe applied to an arbitrary input, then to its output *)

DUrls ==
    { <<>>, <<"a">>, <<"A">>, <<"b">> }

DTitles ==
    { <<>>, <<"x">>, <<"y">> }

\* items with url and title, some empty, and items that lack one of the two
DedupeItems ==
    [url : DUrls, title : DTitles] \cup [url : DUrls] \cup [title : DTitles]

InitDedupe ==
    /\ googleKeys = FALSE
    /\ geminiKey = FALSE
    /\ route = "none"
    /\ pc = "idle"
    /\ googleCalls = 0
    /\ ddgCalls = 0
    /\ geminiCalls = 0
    /\ primary = "none"
    /\ secondary = "none"
    /\ raw = <<>>
    /\ reqBody = <<>>
    /\ gemini = "none"
    /\ status = 0
    /\ resBody = <<>>
    /\ dIn \in SeqsUpTo(DedupeItems, MaxDedupe)
    /\ dOut = <<>>
    /\ dOut2 = <<>>
    /\ dpc = "input"

DedupeOnce ==
    /\ dpc = "input"
    /\ dOut' = dedupe(dIn)
    /\ dpc' = "once"
    /\ UNCHANGED << dIn, dOut2 >>
    /\ UNCHANGED serverVars

DedupeTwice ==
    /\ dpc = "once"
    /\ dOut2' = dedupe(dOut)
    /\ dpc' = "twice"
    /\ UNCHANGED << dIn, dOut >>
    /\ UNCHANGED serverVars

NextDedupe ==
    \/ DedupeOnce
    \/ DedupeTwice

SpecDedupe ==
    InitDedupe /\ [][NextDedupe]_vars

----------------------------------------------------------------------------
(* Properties of dedupe, checked under SpecDedupe *)

UrlKey(it) ==
    toLowerCase(FieldOrEmpty(it, "url"))

TitleKey(it) ==
    toLowerCase(FieldOrEmpty(it, "title"))

\* C1: dedupe is idempotent: applying dedupe to its own output returns that
\* output unchanged, for every input sequence.
C1_DedupeIdempotent ==
    dpc = "twice" => dOut2 = dOut

\* an input with shared and empty keys from which dedupe removed something
C1_Witness ==
    /\ dpc = "twice"
    /\ Len(dOut) >= 2
    /\ Len(dOut) < Len(dIn)
    /\ \E i \in 1..Len(dIn) : UrlKey(dIn[i]) = <<>>
    /\ dOut2 = dOut

\* C2: no two items of dedupe's output share the same non-empty lowercased
\* url: an item whose url was already kept is excluded whatever its title.
C2_NoSharedUrlInOutput ==
    dpc \in {"once", "twice"} =>
        \A i, j \in 1..Len(dOut) :
            (i < j /\ UrlKey(dOut[i]) # <<>>) => UrlKey(dOut[i]) # UrlKey(dOut[j])

\* k[i] tells whether item i of X is kept: its url is non-empty and not the url
\* of an earlier kept item, or its title is non-empty and not the title of an
\* earlier kept item
IsKeepVector(X, k) ==
    \A i \in 1..Len(X) :
        k[i] <=>
            \/ /\ UrlKey(X[i]) # <<>>
               /\ \A j \in 1..(i - 1) : k[j] => UrlKey(X[j]) # UrlKey(X[i])
            \/ /\ TitleKey(X[i]) # <<>>
               /\ \A j \in 1..(i - 1) : k[j] => TitleKey(X[j]) # TitleKey(X[i])

\* out is the subsequence of X that k selects, in X's order
IsSelection(X, k, out) ==
    /\ Len(out) = Cardinality({ i \in 1..Len(X) : k[i] })
    /\ \A i \in 1..Len(X) :
           k[i] => out[Cardinality({ j \in 1..i : k[j] })] = X[i]

\* C3: dedupe keeps an item, in input order, iff its lowercased url is non-empty
\* and not among the urls of previously kept items, or its lowercased title is
\* non-empty and not among the titles of previously kept items; the output
\* is the subsequence of the kept items in their original order.
C3_DedupeKeepRule ==
    dpc \in {"once", "twice"} =>
        \E k \in [1..Len(dIn) -> BOOLEAN] :
            /\ IsKeepVector(dIn, k)
            /\ IsSelection(dIn, k, dOut)
            /\ \A i \in 1..Len(dIn) :
                   (UrlKey(dIn[i]) = <<>> /\ TitleKey(dIn[i]) = <<>>) => ~k[i]

\* an item with a duplicate title and a new url was kept, and an item with no
\* url and no title was dropped
C3_Witness ==
    /\ dpc = "once"
    /\ Len(dIn) = 3
    /\ Len(dOut) = 2
    /\ TitleKey(dOut[1]) = TitleKey(dOut[2])
    /\ TitleKey(dOut[1]) # <<>>
    /\ UrlKey(dOut[1]) # UrlKey(dOut[2])
    /\ \E i \in 1..3 : UrlKey(dIn[i]) = <<>> /\ TitleKey(dIn[i]) = <<>>

----------------------------------------------------------------------------
(* Properties of the /search handler, checked under Spec *)

\* a /search request was answered with a result list
SearchAnswered ==
    route = "search" /\ pc = "done" /\ status = 200

\* the handler took the widening fallback: items.length < 5 (the sort keeps
\* the length of the deduplicated list)
Widened ==
    Len(strongItems(raw)) < WeakLimit

\* the RawResult part of a result item
RawPart(item) ==
    [title |-> item.title, description |-> item.description, url |-> item.url]

\* domainScore(url) + (1 if techs non-empty) + (1 if cities non-empty)
FullScore(item) ==
    domainScore(item.url)
    + (IF item.tags.techs # <<>> THEN 1 ELSE 0)
    + (IF item.tags.cities # <<>> THEN 1 ELSE 0)

\* C4: whenever fewer than 5 items survive the relevance filter and the
\* deduplication, the returned list has at least as many items as that narrow
\* list; in every case it has at most 12 items.
C4_WideningNeverShrinks ==
    SearchAnswered =>
        /\ Len(resBody.results) <= ResultCap
        /\ Widened => Len(resBody.results) >= Len(strongItems(raw))

\* C5: the returned list is in descending order of score, and items of equal
\* score are in the order they had in the list that was sorted (the
\* deduplicated filtered items on the narrow path, the merged list with the
\* filtered items first on the widened path).
C5_SortedStable ==
    SearchAnswered =>
        LET out == resBody.results
            pre == IF Widened THEN mergedItems(narrowItems(raw), raw)
                   ELSE strongItems(raw)
        IN  \A i, j \in 1..Len(out) :
                i < j =>
                    /\ out[i].score >= out[j].score
                    /\ out[i].score = out[j].score =>
                           \E p, q \in 1..Len(pre) :
                               p < q /\ pre[p] = out[i] /\ pre[q] = out[j]

\* a widened answer in which a filtered item and an informative item tie and
\* both follow an item of higher score that came later in the raw list
C5_Witness ==
    /\ SearchAnswered
    /\ Widened
    /\ Len(resBody.results) >= 3
    /\ \E i, j \in 1..Len(resBody.results) :
           /\ i < j
           /\ resBody.results[i].score = resBody.results[j].score
           /\ isRelevant(resBody.results[i])
           /\ ~isRelevant(resBody.results[j])
    /\ RawPart(resBody.results[1]) # raw[1]

\* C6 as stated: every returned item, filtered or informative, has score =
\* domainScore(url) + tech bonus + city bonus, in 0..5.
C6_EveryItemFullScore ==
    SearchAnswered =>
        \A i \in 1..Len(resBody.results) :
            /\ resBody.results[i].score = FullScore(resBody.results[i])
            /\ resBody.results[i].score \in 0..5

\* C6 as amended: every returned item that passes the relevance filter (an item
\* of the filtered list) has score = domainScore(url) + tech bonus + city
\* bonus; every other returned item (an item of the widened informative list)
\* has score = domainScore(url) with no tag bonus; every score is in 0..5.
C6_ScoreByOrigin ==
    SearchAnswered =>
        \A i \in 1..Len(resBody.results) :
            LET item == resBody.results[i]
            IN  /\ item.score \in 0..5
                /\ IF isRelevant(item)
                   THEN item.score = FullScore(item)
                   ELSE item.score = domainScore(item.url) /\ Widened

\* a widened answer with a filtered item of score 5 and an informative item
\* that has tags and no bonus for them
C6_Witness ==
    /\ SearchAnswered
    /\ Widened
    /\ \E i, j \in 1..Len(resBody.results) :
           /\ isRelevant(resBody.results[i])
           /\ resBody.results[i].score = 5
           /\ ~isRelevant(resBody.results[j])
           /\ resBody.results[j].tags.cities # <<>>
           /\ resBody.results[j].score = domainScore(resBody.results[j].url)

\* the single hit of the end-to-end example
ExampleHit ==
    [title |-> TEstagioJava, description |-> DVaga, url |-> UGupy]

\* C10: no raw item that passes the relevance filter is represented in the
\* returned list by its informative copy: every returned item that passes the
\* filter is the filtered copy of its hit, with the full score; the single hit
\* 'Estágio Backend Java' on gupy.io comes back tagged java with score 4.
C10_FilteredCopyWins ==
    SearchAnswered =>
        /\ \A i \in 1..Len(resBody.results) :
               LET item == resBody.results[i]
               IN  isRelevant(item) =>
                       /\ item = filteredItem(RawPart(item))
                       /\ item.score = FullScore(item)
        /\ raw = <<ExampleHit>> =>
               /\ Len(resBody.results) = 1
               /\ RawPart(resBody.results[1]) = ExampleHit
               /\ \E t \in 1..Len(resBody.results[1].tags.techs) :
                      resBody.results[1].tags.techs[t] = <<"java">>
               /\ resBody.results[1].score = 4

\* a widened answer that holds a tagged filtered item, whose informative copy
\* would score less, next to an informative item
C10_Witness ==
    /\ SearchAnswered
    /\ Widened
    /\ \E i, j \in 1..Len(resBody.results) :
           /\ isRelevant(resBody.results[i])
           /\ resBody.results[i].score > domainScore(resBody.results[i].url)
           /\ ~isRelevant(resBody.results[j])

\* C7: in one /search request searchDuckDuckGo is called at most once, exactly
\* when searchGoogleCSE threw, returned null or returned an empty list, and
\* never when it returned a non-empty list; searchGoogleCSE is never called a
\* second time; when both fail the answer is a 5xx with only a generic error.
C7_SingleFallback ==
    route = "search" =>
        /\ googleCalls = 1
        /\ ddgCalls <= 1
        /\ primary = "list" => ddgCalls = 0
        /\ primary \in {"threw", "null", "empty"} => ddgCalls = 1
        /\ ddgCalls = 1 => primary \in {"threw", "null", "empty"}
        /\ primary = "pending" => ddgCalls = 0 /\ pc = "awaitGoogle"
        /\ (pc = "done" /\ secondary = "threw") =>
               /\ status \in 500..599
               /\ DOMAIN resBody = {"erro"}
               /\ resBody.erro = "Falha ao buscar vagas"
        /\ (pc = "done" /\ secondary # "threw") => status = 200

\* both collaborators threw
C7_Witness ==
    /\ route = "search"
    /\ pc = "done"
    /\ primary = "threw"
    /\ secondary = "threw"
    /\ ddgCalls = 1
    /\ status = 500

----------------------------------------------------------------------------
(* Properties of the /refine handler, checked under Spec *)

\* C8: a /refine request whose results are missing, not a list or empty, or
\* that arrives while the credential is absent, is answered with a 4xx error
\* and no outbound summarisation call is made for it.
C8_RefineRejects ==
    (route = "refine" /\ (noResults(bodyResults(reqBody)) \/ ~geminiKey)) =>
        /\ pc = "done"
        /\ status \in 400..499
        /\ DOMAIN resBody = {"erro"}
        /\ geminiCalls = 0
        /\ gemini = "none"

\* a non-empty list posted while the credential is absent
C8_Witness ==
    /\ route = "refine"
    /\ pc = "done"
    /\ ~noResults(bodyResults(reqBody))
    /\ ~geminiKey
    /\ status = 400

\* the summary of the list that holds only the filtered example hit
ExampleSummary ==
    << <<"Tecnologias mais citadas:", "java", "(", "1", ")", ".">>,
       <<"Cidades em destaque: não identificadas.">>,
       <<"Top 5 oportunidades:">>,
       <<"1", ".", "Estágio", "Backend", "Java", "--",
         "https:", "gupy.io", "jobs", "123">>,
       <<"Requisitos comuns de estágio">>,
       <<"Dicas">> >>

\* C9: a /refine request with a non-empty list and a credential always ends
\* in a 200 response with a summary, after exactly one outbound call; when the
\* call fails or yields no generated text the summary is the local summary of
\* the posted results.
C9_RefineFallsBackLocally ==
    (route = "refine" /\ ~noResults(bodyResults(reqBody)) /\ geminiKey) =>
        /\ geminiCalls = 1
        /\ pc \in {"awaitGemini", "done"}
        /\ pc = "done" =>
               /\ status = 200
               /\ DOMAIN resBody = {"resumo"}
               /\ resBody.resumo # <<>>
               /\ gemini \in {"threw", "notext"} =>
                      resBody.resumo = localSummary(bodyResults(reqBody).items)
               /\ gemini = "text" => resBody.resumo = GeminiText
               /\ (gemini \in {"threw", "notext"}
                   /\ bodyResults(reqBody).items = <<filteredItem(ExampleHit)>>) =>
                      resBody.resumo = ExampleSummary

\* the outbound call failed for a posted list of two results
C9_Witness ==
    /\ route = "refine"
    /\ pc = "done"
    /\ gemini = "threw"
    /\ geminiKey
    /\ Len(bodyResults(reqBody).items) >= 2
    /\ status = 200
    /\ resBody.resumo = localSummary(bodyResults(reqBody).items)

====
